---- MODULE Spec2Model ----
(***************************************************************************)
(* The conversation/session engine of the VQA assistant front end          *)
(* (frontend/src/components/ChatbotUI.jsx, the component that starts at    *)
(* line 471): React state as variables, one action per event handler and   *)
(* one per continuation of an awaited request.                             *)
(*                                                                         *)
(* Strings are sequences of symbols; a symbol stands for a fixed run of    *)
(* characters ("http://", "hi", ".png", " ").  JavaScript null is Null     *)
(* for strings, NoId (0) for numeric ids and the empty sequence for a      *)
(* data URL: the code tests these values only for truthiness, and null, 0  *)
(* and "" are all falsy.                                                   *)
(***************************************************************************)
EXTENDS Integers, Sequences, FiniteSets, TLC

VARIABLES
  messages,       \* useState([])  line 472: the Message Store
  textInput,      \* useState("")  line 473
  pendingImage,   \* useState(null) line 474
  user,           \* line 480: username of the logged-in user, or Null
  userId,         \* line 481
  currentChatId,  \* line 482
  chats,          \* line 483: the chat registry
  token,          \* line 484
  authOpen,       \* line 485
  authMode,       \* line 486
  authForm,       \* line 487
  authError,      \* line 488
  inflight,       \* requests and decodes that were started and not yet resolved
  nEvents,        \* history variable: user events handled so far that keep state
                  \* (typing, uploads, sends, submits, clicks in the header)
  lastOp,         \* history variable: the handler or continuation that ran last
  now,            \* Date.now(): the clock, in milliseconds
  ids             \* the id of every message of the Message Store, in store order

vars == <<messages, textInput, pendingImage, user, userId, currentChatId, chats,
          token, authOpen, authMode, authForm, authError, inflight, nEvents, lastOp,
          now, ids>>

authVars == <<user, userId, currentChatId, chats, token>>
modalVars == <<authOpen, authMode, authForm, authError>>
composeVars == <<textInput, pendingImage>>

\* the clock and the message ids are followed by SpecIds only
idVars == <<now, ids>>

-----------------------------------------------------------------------------
(* Bounds of the model *)

\* user events (typing, uploads, sends, submits, header clicks, selections) in
\* one behaviour; opening, closing and filling in the auth modal is not counted
MaxEvents == 4

\* user events in one behaviour that starts from construction
MaxAuthEvents == 3

\* the last instant of the clock
MaxClock == 2

\* symbols in a text given to the parser
MaxLen == 6

-----------------------------------------------------------------------------
(* Values *)

Null == "null"
NoId == 0
NoImage == <<>>

GATEWAY_URL == "http://localhost:8000"

imageExtensions == {".png", ".jpg", ".jpeg", ".gif", ".bmp", ".webp", ".svg"}

maxDimension == 512

Whitespace == {" ", "\n"}

\* String.prototype.toLowerCase on one symbol
ToLowerCase(c) ==
  CASE c = ".PNG" -> ".png"
    [] c = ".JPG" -> ".jpg"
    [] c = "HTTP://" -> "http://"
    [] c = "HTTPS://" -> "https://"
    [] OTHER -> c

Min(S) == CHOOSE x \in S : \A y \in S : x <= y
Max(S) == CHOOSE x \in S : \A y \in S : x >= y

\* String.prototype.trim
Trim(s) ==
  LET keep == {i \in 1..Len(s) : s[i] \notin Whitespace}
  IN  IF keep = {} THEN <<>> ELSE SubSeq(s, Min(keep), Max(keep))

\* String.prototype.startsWith for a prefix that is one symbol
StartsWith(s, p) == Len(s) > 0 /\ s[1] = p

\* urlRegex /(https?:\/\/[^\s]+)/g : the end of the match that starts at i, or 0
MatchEnd(s, i) ==
  IF i + 1 <= Len(s) /\ s[i] \in {"http://", "https://"} /\ s[i + 1] \notin Whitespace
  THEN LET stops == {j \in (i + 1)..Len(s) : s[j] \in Whitespace}
       IN  IF stops = {} THEN Len(s) ELSE Min(stops) - 1
  ELSE 0

\* the while loop of extractImageUrls, scanning from index i
RECURSIVE ExtractFrom(_, _)
ExtractFrom(s, i) ==
  IF i > Len(s) THEN <<>>
  ELSE LET e == MatchEnd(s, i)
       IN  IF e = 0 THEN ExtractFrom(s, i + 1)
           ELSE LET url == SubSeq(s, i, e)
                IN  IF ToLowerCase(url[Len(url)]) \in imageExtensions
                    THEN <<url>> \o ExtractFrom(s, e + 1)
                    ELSE ExtractFrom(s, e + 1)

extractImageUrls(text) == ExtractFrom(text, 1)

\* String.prototype.replace(url, ""): the first occurrence only
ReplaceFirst(s, u) ==
  LET at == {k \in 1..(Len(s) - Len(u) + 1) : SubSeq(s, k, k + Len(u) - 1) = u}
  IN  IF at = {} \/ Len(u) = 0 THEN s
      ELSE SubSeq(s, 1, Min(at) - 1) \o SubSeq(s, Min(at) + Len(u), Len(s))

\* imageUrls.forEach(url => { text = text.replace(url, "").trim(); })
RECURSIVE StripUrls(_, _)
StripUrls(text, urls) ==
  IF urls = <<>> THEN text
  ELSE StripUrls(Trim(ReplaceFirst(text, Head(urls))), Tail(urls))

TextPart(t) == [type |-> "text", text |-> t]
ImageUrlPart(u) == [type |-> "image_url", image_url |-> [url |-> u]]
ImageBase64Part(d) == [type |-> "image_base64", image_base64 |-> [base64 |-> d]]

\* images.forEach(img => ...) of handleSendMessage
RECURSIVE ImageParts(_)
ImageParts(images) ==
  IF images = <<>> THEN <<>>
  ELSE LET img == Head(images)
       IN  (IF StartsWith(img, "http://") \/ StartsWith(img, "https://")
              THEN <<ImageUrlPart(img)>>
            ELSE IF StartsWith(img, "data:image/")
              THEN <<ImageBase64Part(img)>>
            ELSE <<>>) \o ImageParts(Tail(images))

\* a composition that takes the input as it is typed
ComposeContentUntrimmed(input, pending) ==
  LET imageUrls == extractImageUrls(input)
      text == StripUrls(input, imageUrls)
      images == imageUrls \o (IF pending # NoImage THEN <<pending>> ELSE <<>>)
  IN  (IF text # <<>> THEN <<TextPart(text)>> ELSE <<>>) \o ImageParts(images)

\* the content array handleSendMessage composes from the input and the pending image
ComposeContent(input, pending) ==
  LET text0 == Trim(input)
      imageUrls == extractImageUrls(text0)
      text == StripUrls(text0, imageUrls)
      images == imageUrls \o (IF pending # NoImage THEN <<pending>> ELSE <<>>)
  IN  (IF text # <<>> THEN <<TextPart(text)>> ELSE <<>>) \o ImageParts(images)

\* line 512 without the trim
SendAcceptedUntrimmed(input, pending) == ~(input = <<>> /\ pending = NoImage)

\* line 512 negated: the send goes on
SendAccepted(input, pending) == ~(Trim(input) = <<>> /\ pending = NoImage)

\* chatHistory built from [...messages, newMessage]
RECURSIVE ChatHistory(_)
ChatHistory(msgs) ==
  IF msgs = <<>> THEN <<>>
  ELSE LET msg == Head(msgs)
       IN  (IF Len(msg.content) > 0
              THEN <<[role |-> IF msg.isUser THEN "user" ELSE "assistant",
                      content |-> msg.content]>>
            ELSE <<>>) \o ChatHistory(Tail(msgs))

\* the dispatcher without the test of line 585
DispatchBranchNoChatCheck(tok, uid, cid) ==
  IF tok = Null THEN "unauth" ELSE "auth"

\* the branch of the dispatcher taken for the current session
DispatchBranch(tok, uid, cid) ==
  IF tok = Null THEN "unauth"
  ELSE IF uid # NoId /\ cid # NoId THEN "auth"
  ELSE "missing"

-----------------------------------------------------------------------------
(* Image preprocessor: img.onload of handleFileChange *)

\* a resize that scales every image to the bound, small ones as well
TargetSizeUpscaling(width, height) ==
  IF width > height
  THEN <<maxDimension, (height * maxDimension) \div width>>
  ELSE <<(width * maxDimension) \div height, maxDimension>>

\* the canvas size: the scaled size, converted to whole pixels when it is
\* assigned to canvas.width / canvas.height (unsigned long: the fraction is dropped)
TargetSize(width, height) ==
  IF width > height
  THEN IF width > maxDimension
       THEN <<maxDimension, (height * maxDimension) \div width>>
       ELSE <<width, height>>
  ELSE IF height > maxDimension
       THEN <<(width * maxDimension) \div height, maxDimension>>
       ELSE <<width, height>>

\* canvas.toDataURL("image/jpeg", 0.7): a canvas without pixels yields "data:,"
ToDataURL(size) ==
  IF size[1] = 0 \/ size[2] = 0 THEN <<"data:,">>
  ELSE <<"data:image/", "jpeg;base64,", ToString(size[1]), ToString(size[2])>>

-----------------------------------------------------------------------------
(* Inputs of the environment *)

TextInputs == { <<" ">>, <<"hi">>, <<"http://", "x.com/a", ".png">> }

ImageFiles ==
  { [type |-> <<"image/", "png">>, width |-> 100, height |-> 50],
    [type |-> <<"image/", "png">>, width |-> 2000, height |-> 1] }

OtherFiles == { [type |-> <<"text/", "plain">>, width |-> 0, height |-> 0] }

Files == ImageFiles \cup OtherFiles

Answers == { <<"ans">> }
Details == { <<>>, <<"boom">> }

\* what an inference request can come back with: a 2xx answer, a non-2xx status
\* with or without a detail, or a rejected fetch
InferenceOutcomes ==
  [kind : {"ok"}, answer : Answers]
    \cup [kind : {"status"}, status : {500}, detail : Details]
    \cup [kind : {"network"}, message : {<<"Failed to fetch">>}]

Usernames == {"alice"}
Tokens == {"jwt"}
UserIds == {7}
ChatIds == {1, 2}
NewChatIds == {3}

Chat(c) == [id |-> c]

\* chat lists the listing service returns
ChatLists == { <<>>, <<Chat(1), Chat(2)>> }

\* histories the history service returns
Histories ==
  { <<>>,
    << [role |-> "user", hasContent |-> TRUE,
        content |-> <<TextPart(<<"old">>)>>, text |-> <<>>],
       [role |-> "assistant", hasContent |-> TRUE,
        content |-> <<TextPart(<<"reply">>)>>, text |-> <<>>] >> }

-----------------------------------------------------------------------------
(* Message Store entries (id and timestamp are not modelled) *)

UserMessage(content) == [content |-> content, isUser |-> TRUE]

BotMessage(text) == [content |-> <<TextPart(text)>>, isUser |-> FALSE]

\* "Inference failed: " + err.message
FailureText(message) == <<"Inference failed: ">> \o message

MissingChatMessage ==
  <<"Missing userId or currentChatId for authenticated inference">>

\* err.message of the error thrown for a non-2xx response (line 606)
StatusErrorMessage(o) ==
  IF o.detail # <<>> THEN o.detail
  ELSE <<"Inference failed: ", ToString(o.status)>>

\* a reply that carries the answer twice
ReplyMessageTwoParts(o) ==
  CASE o.kind = "ok" ->
         [content |-> <<TextPart(o.answer), TextPart(o.answer)>>, isUser |-> FALSE]
    [] o.kind = "status" -> BotMessage(FailureText(StatusErrorMessage(o)))
    [] o.kind = "network" -> BotMessage(FailureText(o.message))

\* the assistant message a resolved inference request appends
ReplyMessage(o) ==
  CASE o.kind = "ok" -> BotMessage(o.answer)
    [] o.kind = "status" -> BotMessage(FailureText(StatusErrorMessage(o)))
    [] o.kind = "network" -> BotMessage(FailureText(o.message))

\* setMessages([m])
AppendMessageReplacing(prev, m) == <<m>>

\* setMessages(prev => [m, ...prev])
AppendMessagePrepending(prev, m) == <<m>> \o prev

\* setMessages(prev => [...prev, m])
AppendMessage(prev, m) == Append(prev, m)

\* the request handleSendMessage issues for a branch, as the continuation
\* awaiting it holds it: newMessage is the local of that name (line 543)
InferenceRequestFullHistory(branch, newMessage, msgs, tok, uid, cid) ==
  IF branch = "unauth"
  THEN [kind |-> "unauth-inference", n |-> 0, newMessage |-> newMessage,
        body |-> [messages |-> ChatHistory(msgs)]]
  ELSE [kind |-> "auth-inference", n |-> 0, newMessage |-> newMessage,
        bearer |-> tok,
        body |-> [messages |-> ChatHistory(msgs), user_id |-> uid, chat_id |-> cid]]

InferenceRequest(branch, newMessage, msgs, tok, uid, cid) ==
  IF branch = "unauth"
  THEN [kind |-> "unauth-inference", n |-> 0, newMessage |-> newMessage,
        body |-> [messages |-> ChatHistory(msgs)]]
  ELSE [kind |-> "auth-inference", n |-> 0, newMessage |-> newMessage,
        bearer |-> tok,
        body |-> [user_query |-> [role |-> "user", content |-> newMessage.content],
                  user_id |-> uid, chat_id |-> cid]]

IsInference(r) == r.kind \in {"unauth-inference", "auth-inference"}

\* inflight with request r added; n tells identical outstanding requests apart
Started(r) ==
  LET free == {k \in 1..(Cardinality(inflight) + 1) : [r EXCEPT !.n = k] \notin inflight}
  IN  inflight \cup {[r EXCEPT !.n = Min(free)]}

\* one more user event is handled
UserEvent == nEvents < MaxEvents /\ nEvents' = nEvents + 1

-----------------------------------------------------------------------------
(* Composition *)

\* onChange of the textarea
TypeText(t) ==
  /\ UserEvent
  /\ t # textInput
  /\ textInput' = t
  /\ lastOp' = "type"
  /\ UNCHANGED <<messages, pendingImage, authVars, modalVars, inflight>>

\* a handler that drops the pending image before it looks at the file
handleFileChangeClearingPending(file) ==
  /\ UserEvent
  /\ pendingImage' = NoImage
  /\ IF ~StartsWith(file.type, "image/")
     THEN /\ lastOp' = "file_rejected"
          /\ UNCHANGED inflight
     ELSE /\ inflight' = Started([kind |-> "decode", n |-> 0,
                                  width |-> file.width, height |-> file.height])
          /\ lastOp' = "file"
  /\ UNCHANGED <<messages, textInput, authVars, modalVars>>

handleFileChange(file) ==
  /\ UserEvent
  /\ IF ~StartsWith(file.type, "image/")
     THEN /\ lastOp' = "file_rejected"   \* alert(...) and return
          /\ UNCHANGED inflight
     ELSE /\ inflight' = Started([kind |-> "decode", n |-> 0,
                                  width |-> file.width, height |-> file.height])
          /\ lastOp' = "file"
  /\ UNCHANGED <<messages, composeVars, authVars, modalVars>>

\* reader.onload and img.onload
ImgOnload(r) ==
  /\ r \in inflight /\ r.kind = "decode"
  /\ pendingImage' = ToDataURL(TargetSize(r.width, r.height))
  /\ inflight' = inflight \ {r}
  /\ lastOp' = "decoded"
  /\ UNCHANGED <<messages, textInput, authVars, modalVars, nEvents>>

removePendingImage ==
  /\ UserEvent
  /\ pendingImage # NoImage
  /\ pendingImage' = NoImage
  /\ lastOp' = "remove_image"
  /\ UNCHANGED <<messages, textInput, authVars, modalVars, inflight>>

-----------------------------------------------------------------------------
(* Inference dispatcher *)

handleSendMessage ==
  /\ UserEvent
  /\ IF ~SendAccepted(textInput, pendingImage)
     THEN /\ lastOp' = "send_rejected"
          /\ UNCHANGED <<messages, composeVars, inflight>>
     ELSE LET content == ComposeContent(textInput, pendingImage)
              newMessage == UserMessage(content)
              branch == DispatchBranch(token, userId, currentChatId)
          IN  /\ textInput' = <<>>
              /\ pendingImage' = NoImage
              /\ IF branch = "missing"
                 THEN /\ messages' = AppendMessage(AppendMessage(messages, newMessage),
                                        BotMessage(FailureText(MissingChatMessage)))
                      /\ lastOp' = "send_missing"
                      /\ UNCHANGED inflight
                 ELSE /\ messages' = AppendMessage(messages, newMessage)
                      /\ inflight' = Started(InferenceRequest(branch, newMessage,
                                        Append(messages, newMessage),
                                        token, userId, currentChatId))
                      /\ lastOp' = "send"
  /\ UNCHANGED <<authVars, modalVars>>

\* a continuation whose catch block also ends the session
InferenceResolvedEndingSession(r, o) ==
  /\ r \in inflight /\ IsInference(r)
  /\ messages' = AppendMessage(messages, ReplyMessage(o))
  /\ inflight' = inflight \ {r}
  /\ lastOp' = IF o.kind = "ok" THEN "reply_ok" ELSE "reply_failed"
  /\ token' = IF o.kind = "ok" THEN token ELSE Null
  /\ UNCHANGED <<composeVars, user, userId, currentChatId, chats, modalVars, nEvents>>

\* a continuation that drops the reply when its message is no longer displayed
InferenceResolvedDroppingStale(r, o) ==
  /\ r \in inflight /\ IsInference(r)
  /\ messages' = IF \E i \in 1..Len(messages) : messages[i] = r.newMessage
                 THEN AppendMessage(messages, ReplyMessage(o))
                 ELSE messages
  /\ inflight' = inflight \ {r}
  /\ lastOp' = IF o.kind = "ok" THEN "reply_ok" ELSE "reply_failed"
  /\ UNCHANGED <<composeVars, authVars, modalVars, nEvents>>

\* the continuation of handleSendMessage after the awaited fetch
InferenceResolved(r, o) ==
  /\ r \in inflight /\ IsInference(r)
  /\ messages' = AppendMessage(messages, ReplyMessage(o))
  /\ inflight' = inflight \ {r}
  /\ lastOp' = IF o.kind = "ok" THEN "reply_ok" ELSE "reply_failed"
  /\ UNCHANGED <<composeVars, authVars, modalVars, nEvents>>

-----------------------------------------------------------------------------
(* Auth/session state machine *)

\* what the header renders
LogoutRendered == user # Null
LoginRendered == user = Null
NewChatRendered == user # Null
ChatSelectRendered == user # Null /\ Len(chats) > 0

\* a logout that forgets setToken(null)
handleLogoutKeepingToken ==
  /\ UserEvent
  /\ LogoutRendered
  /\ user' = Null
  /\ lastOp' = "logout"
  /\ UNCHANGED <<messages, composeVars, userId, currentChatId, chats, token,
                 modalVars, inflight>>

handleLogout ==
  /\ UserEvent
  /\ LogoutRendered
  /\ user' = Null
  /\ token' = Null
  /\ lastOp' = "logout"
  /\ UNCHANGED <<messages, composeVars, userId, currentChatId, chats, modalVars,
                 inflight>>

\* a createNewChat without the guard of line 827
createNewChatCallUnguarded ==
  /\ UserEvent
  /\ inflight' = Started([kind |-> "create", n |-> 0,
                          user_id |-> userId, bearer |-> token])
  /\ lastOp' = "create"
  /\ UNCHANGED <<messages, composeVars, authVars, modalVars>>

\* the body of createNewChat up to its fetch
createNewChatCall ==
  /\ UserEvent
  /\ IF userId = NoId \/ token = Null
     THEN /\ lastOp' = "create_noop"
          /\ UNCHANGED inflight
     ELSE /\ inflight' = Started([kind |-> "create", n |-> 0,
                                  user_id |-> userId, bearer |-> token])
          /\ lastOp' = "create"
  /\ UNCHANGED <<messages, composeVars, authVars, modalVars>>

\* onClick of "+ New Chat"
createNewChat ==
  /\ NewChatRendered
  /\ createNewChatCall

\* what a create-chat request can come back with: the created chat or a failure
CreateOutcomes(registry) ==
  [kind : {"ok"},
   chat : {Chat(c) : c \in NewChatIds \ {registry[i].id : i \in 1..Len(registry)}}]
    \cup [kind : {"status", "network"}]

\* a continuation that leaves the Message Store as it is
CreateResolvedKeepingStore(r, o) ==
  /\ r \in inflight /\ r.kind = "create"
  /\ inflight' = inflight \ {r}
  /\ IF o.kind = "ok"
     THEN /\ chats' = Append(chats, o.chat)
          /\ currentChatId' = o.chat.id
          /\ lastOp' = "create_ok"
     ELSE /\ lastOp' = "create_failed"
          /\ UNCHANGED <<chats, currentChatId>>
  /\ UNCHANGED <<messages, composeVars, user, userId, token, modalVars, nEvents>>

\* a continuation that empties the registry when the request fails
CreateResolvedEmptyingOnFailure(r, o) ==
  /\ r \in inflight /\ r.kind = "create"
  /\ inflight' = inflight \ {r}
  /\ IF o.kind = "ok"
     THEN /\ chats' = Append(chats, o.chat)
          /\ currentChatId' = o.chat.id
          /\ messages' = <<>>
          /\ lastOp' = "create_ok"
     ELSE /\ lastOp' = "create_failed"
          /\ chats' = <<>>
          /\ UNCHANGED <<currentChatId, messages>>
  /\ UNCHANGED <<composeVars, user, userId, token, modalVars, nEvents>>

\* the continuation of createNewChat
CreateResolved(r, o) ==
  /\ r \in inflight /\ r.kind = "create"
  /\ inflight' = inflight \ {r}
  /\ IF o.kind = "ok"
     THEN /\ chats' = Append(chats, o.chat)
          /\ currentChatId' = o.chat.id
          /\ messages' = <<>>
          /\ lastOp' = "create_ok"
     ELSE /\ lastOp' = "create_failed"
          /\ UNCHANGED <<chats, currentChatId, messages>>
  /\ UNCHANGED <<composeVars, user, userId, token, modalVars, nEvents>>

\* the option values of the chat selector: the placeholder and every chat
SelectOptions == {NoId} \cup {chats[i].id : i \in 1..Len(chats)}

\* the body of chatSelectOnChange with Number(e.target.value) = value, up to the
\* fetch of loadChatMessages
chatSelectOnChangeCall(value) ==
  /\ UserEvent
  /\ IF value = NoId \/ userId = NoId \/ token = Null
     THEN /\ lastOp' = "select_noop"
          /\ UNCHANGED <<currentChatId, inflight>>
     ELSE /\ currentChatId' = value
          /\ inflight' = Started([kind |-> "history", n |-> 0, user_id |-> userId,
                                  chat_id |-> value, bearer |-> token])
          /\ lastOp' = "select"
  /\ UNCHANGED <<messages, composeVars, user, userId, chats, token, modalVars>>

\* onChange of the chat select
chatSelectOnChange(value) ==
  /\ ChatSelectRendered
  /\ value \in SelectOptions /\ value # currentChatId
  /\ chatSelectOnChangeCall(value)

\* messages.map(msg => ...) of loadChatMessages
RECURSIVE FrontendMessages(_)
FrontendMessages(hist) ==
  IF hist = <<>> THEN <<>>
  ELSE LET msg == Head(hist)
       IN  <<[content |-> IF msg.hasContent THEN msg.content
                          ELSE <<TextPart(IF msg.text # <<>> THEN msg.text
                                          ELSE <<"No content">>)>>,
              isUser |-> msg.role = "user"]>> \o FrontendMessages(Tail(hist))

HistoryOutcomes ==
  [kind : {"ok"}, messages : Histories] \cup [kind : {"status", "network"}]

\* a continuation that appends the history to what is displayed
HistoryResolvedAppending(r, o) ==
  /\ r \in inflight /\ r.kind = "history"
  /\ inflight' = inflight \ {r}
  /\ IF o.kind = "ok"
     THEN /\ messages' = messages \o FrontendMessages(o.messages)
          /\ lastOp' = "history_ok"
     ELSE /\ lastOp' = "history_failed"
          /\ UNCHANGED messages
  /\ UNCHANGED <<composeVars, authVars, modalVars, nEvents>>

\* a continuation that clears the display when the history cannot be loaded
HistoryResolvedClearingOnFailure(r, o) ==
  /\ r \in inflight /\ r.kind = "history"
  /\ inflight' = inflight \ {r}
  /\ IF o.kind = "ok"
     THEN /\ messages' = FrontendMessages(o.messages)
          /\ lastOp' = "history_ok"
     ELSE /\ lastOp' = "history_failed"
          /\ messages' = <<>>
  /\ UNCHANGED <<composeVars, authVars, modalVars, nEvents>>

\* the continuation of loadChatMessages
HistoryResolved(r, o) ==
  /\ r \in inflight /\ r.kind = "history"
  /\ inflight' = inflight \ {r}
  /\ IF o.kind = "ok"
     THEN /\ messages' = FrontendMessages(o.messages)
          /\ lastOp' = "history_ok"
     ELSE /\ lastOp' = "history_failed"
          /\ UNCHANGED messages
  /\ UNCHANGED <<composeVars, authVars, modalVars, nEvents>>

-----------------------------------------------------------------------------
(* Auth modal, login, registration and chat listing *)

\* the form openAuth resets to (and useState starts with)
NoForm == [username |-> "", email |-> "", password |-> ""]

\* what the user can put in a field of the auth form
FormValues ==
  [username |-> {"alice"}, email |-> {"a@x.org"}, password |-> {"pw"}]

\* tokens the login service hands out
LoginTokens == Tokens \cup {"jwt2"}

\* set S with request r added; n tells identical outstanding requests apart
StartedIn(S, r) ==
  LET free == {k \in 1..(Cardinality(S) + 1) : [r EXCEPT !.n = k] \notin S}
  IN  S \cup {[r EXCEPT !.n = Min(free)]}

openAuth(mode) ==
  /\ LoginRendered
  /\ authMode' = mode
  /\ authForm' = NoForm
  /\ authError' = <<>>
  /\ authOpen' = TRUE
  /\ lastOp' = "open_auth"
  /\ UNCHANGED <<messages, composeVars, authVars, inflight, nEvents>>

closeAuth ==
  /\ authOpen
  /\ authOpen' = FALSE
  /\ authError' = <<>>
  /\ lastOp' = "close_auth"
  /\ UNCHANGED <<messages, composeVars, authVars, authMode, authForm, inflight, nEvents>>

\* onChange of a field of the form; the email field is rendered for "register" only
handleAuthChange(name, value) ==
  /\ authOpen
  /\ name = "email" => authMode = "register"
  /\ value # authForm[name]
  /\ authForm' = [authForm EXCEPT ![name] = value]
  /\ lastOp' = "auth_change"
  /\ UNCHANGED <<messages, composeVars, authVars, authOpen, authMode, authError,
                 inflight, nEvents>>

\* the form submits only with its required fields filled in
FormValid ==
  /\ authForm.username # ""
  /\ authForm.password # ""
  /\ authMode = "register" => authForm.email # ""

\* POST /auth/login with the body of the form; via names the handler awaiting it
LoginRequest(username, password, via) ==
  [kind |-> "login", n |-> 0, via |-> via,
   body |-> [username |-> username, password |-> password]]

\* GET /chats/{userId} with the bearer token
ChatsRequest(uid, tok) ==
  [kind |-> "chats", n |-> 0, user_id |-> uid, bearer |-> tok]

\* the submit handlers test nothing: a request may be outstanding already
handleLogin ==
  /\ UserEvent
  /\ authOpen /\ authMode = "login" /\ FormValid
  /\ authError' = <<>>
  /\ inflight' = Started(LoginRequest(authForm.username, authForm.password, "login"))
  /\ lastOp' = "login"
  /\ UNCHANGED <<messages, composeVars, authVars, authOpen, authMode, authForm>>

handleRegister ==
  /\ UserEvent
  /\ authOpen /\ authMode = "register" /\ FormValid
  /\ authError' = <<>>
  /\ inflight' = Started([kind |-> "register", n |-> 0,
                          body |-> [username |-> authForm.username,
                                    email |-> authForm.email,
                                    password |-> authForm.password]])
  /\ lastOp' = "register"
  /\ UNCHANGED <<messages, composeVars, authVars, authOpen, authMode, authForm>>

\* what a login or registration request can come back with
LoginOutcomes ==
  [kind : {"ok"}, access_token : LoginTokens, user_id : UserIds]
    \cup [kind : {"status"}, detail : Details]
    \cup [kind : {"network"}, message : {<<"Failed to fetch">>}]

RegisterOutcomes ==
  [kind : {"ok"}]
    \cup [kind : {"status"}, detail : Details]
    \cup [kind : {"network"}, message : {<<"Failed to fetch">>}]

\* err.message in the catch block: errBody.detail || fallback, or the rejection
AuthErrorMessage(o, fallback) ==
  IF o.kind = "network" THEN o.message
  ELSE IF o.detail # <<>> THEN o.detail ELSE fallback

\* a registration continuation that logs in whatever the registration returned
RegisterResolvedLoggingInAnyway(r, o) ==
  /\ r \in inflight /\ r.kind = "register"
  /\ inflight' = StartedIn(inflight \ {r},
                    LoginRequest(r.body.username, r.body.password, "register"))
  /\ lastOp' = IF o.kind = "ok" THEN "register_ok" ELSE "register_failed"
  /\ authError' = IF o.kind = "ok" THEN authError
                  ELSE AuthErrorMessage(o, <<"Registration failed">>)
  /\ UNCHANGED <<messages, composeVars, authVars, authOpen, authMode, authForm, nEvents>>

\* a registration continuation that sends a failed request once more
RegisterResolvedRetrying(r, o) ==
  /\ r \in inflight /\ r.kind = "register"
  /\ IF o.kind = "ok"
     THEN /\ inflight' = StartedIn(inflight \ {r},
                           LoginRequest(r.body.username, r.body.password, "register"))
          /\ lastOp' = "register_ok"
          /\ UNCHANGED authError
     ELSE /\ inflight' = StartedIn(inflight \ {r}, [r EXCEPT !.n = 0])
          /\ authError' = AuthErrorMessage(o, <<"Registration failed">>)
          /\ lastOp' = "register_failed"
  /\ UNCHANGED <<messages, composeVars, authVars, authOpen, authMode, authForm, nEvents>>

\* the continuation of handleRegister after the registration request
RegisterResolved(r, o) ==
  /\ r \in inflight /\ r.kind = "register"
  /\ IF o.kind = "ok"
     THEN /\ inflight' = StartedIn(inflight \ {r},
                           LoginRequest(r.body.username, r.body.password, "register"))
          /\ lastOp' = "register_ok"
          /\ UNCHANGED authError
     ELSE /\ inflight' = inflight \ {r}
          /\ authError' = AuthErrorMessage(o, <<"Registration failed">>)
          /\ lastOp' = "register_failed"
  /\ UNCHANGED <<messages, composeVars, authVars, authOpen, authMode, authForm, nEvents>>

\* a login continuation that lists the chats before it stores the credentials
LoginContinuationListingFirst(r, o) ==
  /\ r \in inflight /\ r.kind = "login"
  /\ IF o.kind = "ok"
     THEN /\ inflight' = StartedIn(inflight \ {r}, ChatsRequest(userId, token))
          /\ token' = o.access_token
          /\ user' = r.body.username
          /\ userId' = o.user_id
          /\ authOpen' = FALSE
          /\ authError' = <<>>
          /\ lastOp' = "login_ok"
     ELSE /\ inflight' = inflight \ {r}
          /\ authError' = AuthErrorMessage(o, <<"Login failed">>)
          /\ lastOp' = "login_failed"
          /\ UNCHANGED <<token, user, userId, authOpen>>
  /\ UNCHANGED <<messages, composeVars, currentChatId, chats, authMode, authForm, nEvents>>

\* a login continuation that closes the modal on failure as well
LoginContinuationClosingOnFailure(r, o) ==
  /\ r \in inflight /\ r.kind = "login"
  /\ authOpen' = FALSE
  /\ IF o.kind = "ok"
     THEN /\ token' = o.access_token
          /\ user' = r.body.username
          /\ userId' = o.user_id
          /\ authError' = <<>>
          /\ inflight' = StartedIn(inflight \ {r}, ChatsRequest(o.user_id, o.access_token))
          /\ lastOp' = "login_ok"
     ELSE /\ inflight' = inflight \ {r}
          /\ authError' = AuthErrorMessage(o, <<"Login failed">>)
          /\ lastOp' = "login_failed"
          /\ UNCHANGED <<token, user, userId>>
  /\ UNCHANGED <<messages, composeVars, currentChatId, chats, authMode, authForm, nEvents>>

\* what follows the awaited login request, in handleLogin and in handleRegister:
\* store the credentials, close the modal, call loadUserChats (which runs up to
\* its fetch); or set the auth error
LoginContinuation(r, o) ==
  /\ r \in inflight /\ r.kind = "login"
  /\ IF o.kind = "ok"
     THEN /\ token' = o.access_token
          /\ user' = r.body.username
          /\ userId' = o.user_id
          /\ authOpen' = FALSE
          /\ authError' = <<>>
          /\ inflight' = StartedIn(inflight \ {r}, ChatsRequest(o.user_id, o.access_token))
          /\ lastOp' = "login_ok"
     ELSE /\ inflight' = inflight \ {r}
          /\ authError' = AuthErrorMessage(o, <<"Login failed">>)
          /\ lastOp' = "login_failed"
          /\ UNCHANGED <<token, user, userId, authOpen>>
  /\ UNCHANGED <<messages, composeVars, currentChatId, chats, authMode, authForm, nEvents>>

\* the continuation of handleLogin
LoginResolved(r, o) ==
  r.kind = "login" /\ r.via = "login" /\ LoginContinuation(r, o)

\* the continuation of handleRegister after its login request
RegisterLoginResolved(r, o) ==
  r.kind = "login" /\ r.via = "register" /\ LoginContinuation(r, o)

\* what a chat-listing request can come back with
ListingOutcomes ==
  [kind : {"ok"}, chats : ChatLists] \cup [kind : {"status", "network"}]

\* the continuation of loadUserChats
ChatsResolved(r, o) ==
  /\ r \in inflight /\ r.kind = "chats"
  /\ inflight' = inflight \ {r}
  /\ CASE o.kind = "ok" ->
            /\ chats' = o.chats
            \* chatsList[0].id of an empty list throws; the catch block logs it
            /\ currentChatId' = IF o.chats # <<>> THEN o.chats[1].id ELSE currentChatId
            /\ lastOp' = "chats_ok"
       [] o.kind = "status" ->
            /\ chats' = <<>>
            /\ lastOp' = "chats_failed"
            /\ UNCHANGED currentChatId
       [] o.kind = "network" ->
            /\ lastOp' = "chats_failed"
            /\ UNCHANGED <<chats, currentChatId>>
  /\ UNCHANGED <<messages, composeVars, user, userId, token, modalVars, nEvents>>

-----------------------------------------------------------------------------
(* Specification of the session engine.  It starts in a session the login   *)
(* flow leads to: nobody logged in, logged in with the chats listed and the *)
(* first one current, or logged in with no chat (the listing failed or has  *)
(* not arrived).                                                            *)

Sessions ==
  { [user |-> Null, token |-> Null, userId |-> NoId, chats |-> <<>>,
     currentChatId |-> NoId] }
  \cup
  { [user |-> u, token |-> t, userId |-> i, chats |-> l,
     currentChatId |-> IF l = <<>> THEN NoId ELSE l[1].id] :
       u \in Usernames, t \in Tokens, i \in UserIds, l \in ChatLists }

Init ==
  /\ messages = <<>>
  /\ textInput = <<>>
  /\ pendingImage = NoImage
  /\ \E s \in Sessions :
       /\ user = s.user /\ token = s.token /\ userId = s.userId
       /\ chats = s.chats /\ currentChatId = s.currentChatId
  /\ authOpen = FALSE
  /\ authMode = "login"
  /\ authForm = NoForm
  /\ authError = <<>>
  /\ inflight = {}
  /\ nEvents = 0
  /\ lastOp = "init"
  /\ now = 0
  /\ ids = <<>>

Next ==
  \/ \E t \in TextInputs \cup {<<>>} : TypeText(t) /\ UNCHANGED idVars
  \/ \E f \in Files : handleFileChange(f) /\ UNCHANGED idVars
  \/ \E r \in inflight : ImgOnload(r) /\ UNCHANGED idVars
  \/ removePendingImage /\ UNCHANGED idVars
  \/ handleSendMessage /\ UNCHANGED idVars
  \/ \E r \in inflight, o \in InferenceOutcomes : InferenceResolved(r, o)
       /\ UNCHANGED idVars
  \/ handleLogout /\ UNCHANGED idVars
  \/ createNewChat /\ UNCHANGED idVars
  \/ \E r \in inflight, o \in CreateOutcomes(chats) : CreateResolved(r, o)
       /\ UNCHANGED idVars
  \/ \E v \in {NoId} \cup ChatIds \cup NewChatIds : chatSelectOnChange(v)
       /\ UNCHANGED idVars
  \/ \E r \in inflight, o \in HistoryOutcomes : HistoryResolved(r, o)
       /\ UNCHANGED idVars

Spec == Init /\ [][Next]_vars

-----------------------------------------------------------------------------
(* Specification of the whole client, from construction *)

InitAuth ==
  /\ messages = <<>>
  /\ textInput = <<>>
  /\ pendingImage = NoImage
  /\ user = Null /\ token = Null /\ userId = NoId
  /\ chats = <<>> /\ currentChatId = NoId
  /\ authOpen = FALSE
  /\ authMode = "login"
  /\ authForm = NoForm
  /\ authError = <<>>
  /\ inflight = {}
  /\ nEvents = 0
  /\ lastOp = "init"
  /\ now = 0
  /\ ids = <<>>

\* behaviours from construction have at most MaxAuthEvents user events
AuthBudget == nEvents < MaxAuthEvents

NextAuth ==
  \/ \E mode \in {"login", "register"} : openAuth(mode) /\ UNCHANGED idVars
  \/ closeAuth /\ UNCHANGED idVars
  \/ \E name \in DOMAIN FormValues : \E value \in FormValues[name] :
       handleAuthChange(name, value) /\ UNCHANGED idVars
  \/ AuthBudget /\ handleLogin /\ UNCHANGED idVars
  \/ AuthBudget /\ handleRegister /\ UNCHANGED idVars
  \/ \E r \in inflight, o \in RegisterOutcomes : RegisterResolved(r, o)
       /\ UNCHANGED idVars
  \/ \E r \in inflight, o \in LoginOutcomes : LoginResolved(r, o) /\ UNCHANGED idVars
  \/ \E r \in inflight, o \in LoginOutcomes : RegisterLoginResolved(r, o)
       /\ UNCHANGED idVars
  \/ \E r \in inflight, o \in ListingOutcomes : ChatsResolved(r, o) /\ UNCHANGED idVars
  \/ AuthBudget /\ TypeText(<<"hi">>) /\ UNCHANGED idVars
  \/ AuthBudget /\ handleSendMessage /\ UNCHANGED idVars
  \/ \E r \in inflight, o \in InferenceOutcomes : InferenceResolved(r, o)
       /\ UNCHANGED idVars
  \/ AuthBudget /\ handleLogout /\ UNCHANGED idVars
  \/ AuthBudget /\ createNewChat /\ UNCHANGED idVars
  \/ \E r \in inflight, o \in CreateOutcomes(chats) : CreateResolved(r, o)
       /\ UNCHANGED idVars

SpecAuth == InitAuth /\ [][NextAuth]_vars

-----------------------------------------------------------------------------
(* Specification of the message ids: an Anonymous conversation from          *)
(* construction, with the clock and the id each append gives its message     *)

\* the clock advances
Tick ==
  /\ now < MaxClock
  /\ now' = now + 1
  /\ UNCHANGED <<messages, composeVars, authVars, modalVars, inflight, nEvents,
                 lastOp, ids>>

\* newMessage.id is Date.now(); the botMessage of the catch block, Date.now() + 1
SendIds ==
  /\ ids' = CASE lastOp' = "send" -> Append(ids, now)
              [] lastOp' = "send_missing" -> ids \o <<now, now + 1>>
              [] OTHER -> ids
  /\ UNCHANGED now

\* botMessage.id is Date.now() + 1
ReplyIds ==
  /\ ids' = Append(ids, now + 1)
  /\ UNCHANGED now

NextIds ==
  \/ Tick
  \/ TypeText(<<"hi">>) /\ UNCHANGED idVars
  \/ handleSendMessage /\ SendIds
  \/ \E r \in inflight, o \in InferenceOutcomes : InferenceResolved(r, o) /\ ReplyIds

SpecIds == InitAuth /\ [][NextIds]_vars

-----------------------------------------------------------------------------
(* Specification of the input parser: the text of the composer is any short *)
(* string, nothing is pending, and the user sends it                         *)

\* the symbols the texts are made of
ParseAlphabet == {" ", "hi", "http://", ".PNG"}

\* the texts with a bracketed marker
MarkerInputs ==
  { <<"[Image Link:", " ", "ftp://", "x.com/a", ".jpg", "]", " ", "hi">>,
    <<"[Image Link:", " ", "https://", "x.com/a", ".jpg", "]", " ", "hi">>,
    <<"hi", " ", "[image link:", "https://", "x.com/a", ".jpg", "]">> }

ParseInputs ==
  UNION {[1..k -> ParseAlphabet] : k \in 0..MaxLen} \cup MarkerInputs

InitParse ==
  /\ messages = <<>>
  /\ textInput \in ParseInputs
  /\ pendingImage = NoImage
  /\ user = Null /\ token = Null /\ userId = NoId
  /\ chats = <<>> /\ currentChatId = NoId
  /\ authOpen = FALSE
  /\ authMode = "login"
  /\ authForm = NoForm
  /\ authError = <<>>
  /\ inflight = {}
  /\ nEvents = 0
  /\ lastOp = "init"
  /\ now = 0
  /\ ids = <<>>

NextParse ==
  \/ handleSendMessage /\ UNCHANGED idVars
  \/ \E r \in inflight, o \in InferenceOutcomes : InferenceResolved(r, o)
       /\ UNCHANGED idVars

SpecParse == InitParse /\ [][NextParse]_vars

-----------------------------------------------------------------------------
(* Specification of the image preprocessor: the user has chosen an image of *)
(* some width and height, which is decoded and resized, and may send it     *)

\* widths and heights of the images given to the preprocessor
Dimensions ==
  {1, 2, 3, 5, 100, 255, 256, 257, 511, 512, 513, 600, 1000, 1023, 1024, 1025,
   2000, 4096}

InitResize ==
  /\ messages = <<>>
  /\ textInput = <<>>
  /\ pendingImage = NoImage
  /\ user = Null /\ token = Null /\ userId = NoId
  /\ chats = <<>> /\ currentChatId = NoId
  /\ authOpen = FALSE
  /\ authMode = "login"
  /\ authForm = NoForm
  /\ authError = <<>>
  /\ \E w \in Dimensions, h \in Dimensions :
       inflight = {[kind |-> "decode", n |-> 1, width |-> w, height |-> h]}
  /\ nEvents = 1
  /\ lastOp = "file"
  /\ now = 0
  /\ ids = <<>>

NextResize ==
  \/ \E r \in inflight : ImgOnload(r) /\ UNCHANGED idVars
  \/ removePendingImage /\ UNCHANGED idVars
  \/ handleSendMessage /\ UNCHANGED idVars

SpecResize == InitResize /\ [][NextResize]_vars

-----------------------------------------------------------------------------
(* Specification of the chat handlers called as functions: createNewChat and
   chatSelectOnChange run in any state of a session, whatever the header
   renders, so that their guards at lines 815-820 and 827 are exercised *)

NextHandlers ==
  \/ \E t \in TextInputs : TypeText(t) /\ UNCHANGED idVars
  \/ handleSendMessage /\ UNCHANGED idVars
  \/ \E r \in inflight, o \in InferenceOutcomes : InferenceResolved(r, o)
       /\ UNCHANGED idVars
  \/ handleLogout /\ UNCHANGED idVars
  \/ createNewChatCall /\ UNCHANGED idVars
  \/ \E r \in inflight, o \in CreateOutcomes(chats) : CreateResolved(r, o)
       /\ UNCHANGED idVars
  \/ \E v \in {NoId} \cup ChatIds \cup NewChatIds : chatSelectOnChangeCall(v)
       /\ UNCHANGED idVars
  \/ \E r \in inflight, o \in HistoryOutcomes : HistoryResolved(r, o)
       /\ UNCHANGED idVars

SpecHandlers == Init /\ [][NextHandlers]_vars

-----------------------------------------------------------------------------
(* Vocabulary of the properties *)

SendOps == {"send", "send_missing", "send_rejected"}

\* this step is a send that passed line 512
SendStep == nEvents' # nEvents /\ lastOp' \in {"send", "send_missing"}

\* the requests this step started, and those it resolved
Issued == inflight' \ inflight
Resolved == inflight \ inflight'

Last(q) == q[Len(q)]

IsPrefix(a, b) == Len(a) <= Len(b) /\ SubSeq(b, 1, Len(a)) = a

Stored(m, store) == \E i \in 1..Len(store) : store[i] = m

\* an assistant message of one text part that describes a failure
IsFailureMessage(m) ==
  /\ ~m.isUser
  /\ Len(m.content) = 1
  /\ m.content[1].type = "text"
  /\ StartsWith(m.content[1].text, "Inference failed: ")

\* every message as a role + content-parts record, none omitted
RECURSIVE FullHistory(_)
FullHistory(msgs) ==
  IF msgs = <<>> THEN <<>>
  ELSE <<[role |-> IF Head(msgs).isUser THEN "user" ELSE "assistant",
          content |-> Head(msgs).content]>> \o FullHistory(Tail(msgs))

-----------------------------------------------------------------------------
(* Properties *)

\* C1 as stated: the user's message is in the Message Store when the request
\* is issued and is still in it when the request has resolved, whatever the
\* outcome of the request.
C1_UserMessageStillStoredAfterReply ==
  [][ /\ (SendStep /\ lastOp' = "send") =>
           \A r \in Issued : Stored(r.newMessage, messages')
      /\ \A r \in Resolved : IsInference(r) => Stored(r.newMessage, messages')
    ]_vars

\* C1 amended: a send appends the user's message in the step that issues the
\* request, and no step removes it again (the resolution of the request, with any
\* outcome, included) except a successful createChat or a loaded chat history,
\* which clear or replace the whole store.
C1_UserMessageStaysUnlessStoreReplaced ==
  [][ /\ (SendStep /\ lastOp' = "send") =>
           \E r \in inflight' :
             /\ Issued = {r} /\ IsInference(r)
             /\ r.newMessage.isUser
             /\ messages' = Append(messages, r.newMessage)
      /\ (\E r \in Resolved : IsInference(r)) => IsPrefix(messages, messages')
      /\ lastOp' \notin {"create_ok", "history_ok"} => IsPrefix(messages, messages')
    ]_vars

C1_Witness ==
  /\ lastOp = "reply_failed"
  /\ Len(messages) >= 2
  /\ messages[Len(messages) - 1].isUser
  /\ IsFailureMessage(Last(messages))

\* C2: an accepted send issues exactly one request and appends no assistant
\* message yet, or (no chat context) appends exactly one at once; a resolving
\* request appends exactly one assistant message of one text part (the returned
\* answer on success) and is gone; no other step drops or duplicates a request.
C2_ExactlyOneAssistantMessagePerSend ==
  [][ /\ (SendStep /\ lastOp' = "send") =>
           /\ Cardinality(Issued) = 1 /\ Resolved = {}
           /\ Len(messages') = Len(messages) + 1
           /\ Last(messages').isUser
      /\ (SendStep /\ lastOp' = "send_missing") =>
           /\ inflight' = inflight
           /\ Len(messages') = Len(messages) + 2
           /\ IsPrefix(messages, messages')
           /\ messages'[Len(messages) + 1].isUser
           /\ ~Last(messages').isUser
      /\ lastOp' \in {"reply_ok", "reply_failed"} =>
           /\ \E r \in inflight : IsInference(r) /\ inflight' = inflight \ {r}
           /\ Len(messages') = Len(messages) + 1
           /\ IsPrefix(messages, messages')
           /\ ~Last(messages').isUser
           /\ Len(Last(messages').content) = 1
           /\ Last(messages').content[1].type = "text"
           /\ lastOp' = "reply_ok" => Last(messages').content[1].text \in Answers
      /\ lastOp' \notin {"send", "reply_ok", "reply_failed"} =>
           {r \in inflight' : IsInference(r)} = {r \in inflight : IsInference(r)}
    ]_vars

C2_Witness ==
  /\ lastOp = "reply_ok"
  /\ Len(messages) >= 2
  /\ messages[Len(messages) - 1].isUser
  /\ Last(messages) = BotMessage(<<"ans">>)

\* C3 as stated: the request of an Anonymous send carries every message of the
\* Message Store, in store order, with the new message last; none is omitted.
C3_AnonymousHistoryIsWholeStore ==
  (lastOp = "send" /\ token = Null) =>
    \E r \in inflight :
      /\ r.kind = "unauth-inference"
      /\ r.newMessage = Last(messages)
      /\ r.body.messages = FullHistory(messages)

\* C4: a send with a token, a user id and a current chat issues one request, to
\* the authenticated contract, with the token as bearer and a body of the new
\* message's content, the user id and the current chat id, and nothing else.
C4_AuthSendCarriesOnlyNewMessage ==
  [][ (SendStep /\ token # Null /\ userId # NoId /\ currentChatId # NoId) =>
        /\ lastOp' = "send"
        /\ \E r \in inflight' :
             /\ Issued = {r}
             /\ r.kind = "auth-inference"
             /\ r.bearer = token
             /\ r.body = [user_query |-> [role |-> "user",
                                          content |-> Last(messages').content],
                          user_id |-> userId, chat_id |-> currentChatId]
    ]_vars

C4_Witness ==
  /\ lastOp = "send"
  /\ token # Null
  /\ Len(messages) >= 2
  /\ \E r \in inflight :
       /\ r.kind = "auth-inference"
       /\ r.newMessage = Last(messages)
       /\ r.body.chat_id = currentChatId

\* C5: a send with a token but no user id or no current chat starts no request
\* and appends the user's message and one assistant message whose single text
\* part describes the failure.
C5_MissingChatContextFailsFast ==
  [][ (SendStep /\ token # Null /\ (userId = NoId \/ currentChatId = NoId)) =>
        /\ inflight' = inflight
        /\ Len(messages') = Len(messages) + 2
        /\ IsPrefix(messages, messages')
        /\ messages'[Len(messages) + 1].isUser
        /\ IsFailureMessage(Last(messages'))
    ]_vars

C5_Witness ==
  /\ lastOp = "send_missing"
  /\ token # Null /\ currentChatId = NoId
  /\ Len(messages) = 2
  /\ IsFailureMessage(Last(messages))

\* C6: a failed inference request appends exactly one assistant message of one
\* text part describing the failure and changes neither the auth state, the
\* registry, the current chat nor an earlier message; a send that follows is
\* accepted and dispatched by the branch of the session.
C6_FailedInferenceIsRecovered ==
  [][ /\ lastOp' = "reply_failed" =>
           /\ Len(messages') = Len(messages) + 1
           /\ IsPrefix(messages, messages')
           /\ IsFailureMessage(Last(messages'))
           /\ UNCHANGED authVars
      /\ (/\ lastOp = "reply_failed" /\ nEvents' # nEvents /\ lastOp' \in SendOps
          /\ Trim(textInput) # <<>> \/ pendingImage # NoImage) =>
           /\ Len(messages') > Len(messages)
           /\ IsPrefix(messages, messages')
           /\ messages'[Len(messages) + 1].isUser
           /\ token = Null => \E r \in Issued : r.kind = "unauth-inference"
           /\ (token # Null /\ userId # NoId /\ currentChatId # NoId) =>
                \E r \in Issued : r.kind = "auth-inference"
    ]_vars

C6_Witness ==
  /\ lastOp = "send"
  /\ Len(messages) >= 3
  /\ IsFailureMessage(messages[Len(messages) - 1])
  /\ \E r \in inflight : IsInference(r) /\ r.newMessage = Last(messages)

\* C7: a send with empty or whitespace-only text and no pending image changes
\* neither the Message Store, the text input, the pending image nor the auth
\* state and starts no request.
C7_EmptySendIsNoOp ==
  [][ (/\ nEvents' # nEvents /\ lastOp' \in SendOps
       /\ Trim(textInput) = <<>> /\ pendingImage = NoImage) =>
        /\ lastOp' = "send_rejected"
        /\ UNCHANGED <<messages, textInput, pendingImage, authVars, modalVars, inflight>>
    ]_vars

C7_Witness ==
  /\ lastOp = "send_rejected"
  /\ textInput = <<" ">>
  /\ pendingImage = NoImage

\* C8 as stated: the message a send has appended to the Message Store has at
\* least one content part.
C8_SentMessageHasParts ==
  /\ lastOp = "send" => Len(Last(messages).content) > 0
  /\ lastOp = "send_missing" => Len(messages[Len(messages) - 1].content) > 0

\* C9: after logout the token and the username are none and the header shows
\* the logged-out controls; a send in that state goes to the unauthenticated
\* contract.
C9_LogoutLeadsToAnonymous ==
  [][ /\ lastOp' = "logout" =>
           /\ token' = Null /\ user' = Null
           /\ LoginRendered' /\ ~LogoutRendered'
      /\ (lastOp = "logout" /\ SendStep) =>
           /\ lastOp' = "send"
           /\ \E r \in inflight' : Issued = {r} /\ r.kind = "unauth-inference"
    ]_vars

C9_Witness ==
  /\ lastOp = "send"
  /\ token = Null /\ user = Null
  /\ userId # NoId
  /\ \E r \in inflight : r.kind = "unauth-inference" /\ r.newMessage = Last(messages)

\* C10 as stated: right after logout the Message Store is empty.
C10_LogoutClearsStore ==
  lastOp = "logout" => messages = <<>>

\* C11 as stated: right after logout the user id is none, the chat registry is
\* empty and no chat is current.
C11_LogoutClearsSession ==
  lastOp = "logout" => (userId = NoId /\ chats = <<>> /\ currentChatId = NoId)

\* C12: the step that completes a successful login stores a token and a user id
\* of the response and the username that was submitted, leaves the client
\* Authenticated with the modal closed, and issues exactly one request, the chat
\* listing for the stored user id with the stored token; no other step issues a
\* chat-listing request, so none is issued before the credentials are stored.
C12_LoginStoresCredentialsThenListsChats ==
  [][ /\ lastOp' = "login_ok" =>
           /\ \E r \in Resolved : r.kind = "login" /\ user' = r.body.username
           /\ token' \in LoginTokens /\ userId' \in UserIds
           /\ user' # Null /\ LogoutRendered'
           /\ ~authOpen'
           /\ Issued = {[kind |-> "chats", n |-> q.n, user_id |-> userId',
                         bearer |-> token'] : q \in Issued}
           /\ Cardinality(Issued) = 1
      /\ (\E q \in Issued : q.kind = "chats") => lastOp' = "login_ok"
    ]_vars

C12_Witness ==
  /\ lastOp = "login_ok"
  /\ user = "alice" /\ token = "jwt2" /\ userId = 7
  /\ ~authOpen
  /\ authMode = "login"
  /\ \E q \in inflight : q.kind = "chats" /\ q.user_id = 7 /\ q.bearer = "jwt2"

\* C13: the step that completes a failed login (non-success status or network
\* failure) leaves token, user id, username, chat registry and current chat as
\* they were (none stay none), issues no request, leaves the modal as it is
\* (an open modal stays open) and sets the auth error to a message of the
\* failure: the service's detail, or the fallback text or the fetch error.
C13_FailedLoginChangesNothingButTheError ==
  [][ lastOp' = "login_failed" =>
        /\ UNCHANGED authVars
        /\ (token = Null /\ user = Null) => (token' = Null /\ user' = Null)
        /\ Issued = {}
        /\ \E r \in inflight : r.kind = "login" /\ inflight' = inflight \ {r}
        /\ authOpen' = authOpen
        /\ authError' \in (Details \ {<<>>})
                            \cup {<<"Login failed">>, <<"Failed to fetch">>}
    ]_vars

C13_Witness ==
  /\ lastOp = "login_failed"
  /\ authOpen /\ authMode = "login"
  /\ authError = <<"boom">>
  /\ token = Null /\ user = Null /\ userId = NoId
  /\ chats = <<>> /\ currentChatId = NoId
  /\ ~\E q \in inflight : q.kind = "chats"

C15_FailedRegistrationIsSurfacedNotRetried ==
  [][ /\ lastOp' = "register_failed" =>
           /\ authError' \in (Details \ {<<>>})
                  \cup {<<"Registration failed">>, <<"Failed to fetch">>}
           /\ UNCHANGED authVars
           /\ authOpen' = authOpen
           /\ Issued = {}
           /\ \E r \in inflight : r.kind = "register" /\ inflight' = inflight \ {r}
      /\ lastOp' = "register" =>
           /\ Resolved = {}
           /\ \E q \in Issued :
                /\ Issued = {q} /\ q.kind = "register"
                /\ q.body = [username |-> authForm.username, email |-> authForm.email,
                             password |-> authForm.password]
      /\ (\E q \in Issued : q.kind = "register") =>
           lastOp' = "register" /\ nEvents' = nEvents + 1
    ]_vars

C15_Witness ==
  /\ lastOp = "register_failed"
  /\ authOpen /\ authMode = "register"
  /\ authError = <<"boom">>
  /\ token = Null /\ user = Null /\ userId = NoId
  /\ inflight = {}
  /\ nEvents = 1

\* C16 as stated: at most one login or registration request is in flight.
C16_AtMostOneAuthRequestInFlight ==
  Cardinality({r \in inflight : r.kind \in {"login", "register"}}) <= 1

\* C17 as stated: a successful chat listing makes the registry one of the lists
\* the service returns, keeps a chat that is already selected and, when none is
\* selected, selects the first chat of the list.
C17_ListingKeepsSelectedChat ==
  [][ lastOp' = "chats_ok" =>
        /\ chats' \in ChatLists
        /\ currentChatId # NoId => currentChatId' = currentChatId
        /\ (currentChatId = NoId /\ chats' # <<>>) => currentChatId' = chats'[1].id
    ]_vars

\* C18 as stated: a failed chat listing (non-success status or network failure)
\* leaves the registry empty and the token, user id and username as they were.
C18_FailedListingEmptiesRegistry ==
  [][ lastOp' = "chats_failed" =>
        /\ chats' = <<>>
        /\ UNCHANGED <<token, userId, user>>
    ]_vars

C20_FailedCreateChatChangesNothing ==
  [][ lastOp' = "create_failed" =>
        /\ UNCHANGED <<chats, currentChatId, messages, user, userId, token>>
        /\ UNCHANGED <<composeVars, modalVars>>
        /\ Issued = {}
    ]_vars

C20_Witness ==
  /\ lastOp = "create_failed"
  /\ chats = <<Chat(1), Chat(2)>>
  /\ currentChatId = 1
  /\ Len(messages) >= 1
  /\ token # Null

\* the Message Store entries of a history, written out: one entry per message,
\* in the order received, by the user exactly when the role is "user"
RECURSIVE StoreOfHistory(_)
StoreOfHistory(hist) ==
  IF hist = <<>> THEN <<>>
  ELSE StoreOfHistory(SubSeq(hist, 1, Len(hist) - 1))
         \o <<[content |-> Last(hist).content, isUser |-> (Last(hist).role = "user")]>>

\* C21: selecting a chat of the registry while Authenticated sets currentChatId
\* to it and issues, in the same step, one history request for that chat; the
\* step that completes the request successfully makes the Message Store the
\* received messages, in their order, and nothing else.
C21_SelectChatLoadsItsHistory ==
  [][ /\ lastOp' = "select" =>
           /\ \E i \in 1..Len(chats) : chats[i].id = currentChatId'
           /\ currentChatId' # currentChatId
           /\ Issued = {[kind |-> "history", n |-> q.n, user_id |-> userId,
                         chat_id |-> currentChatId', bearer |-> token] : q \in Issued}
           /\ Cardinality(Issued) = 1
           /\ UNCHANGED messages
      /\ lastOp' = "history_ok" =>
           /\ \E r \in inflight : r.kind = "history" /\ inflight' = inflight \ {r}
           /\ messages' \in {StoreOfHistory(h) : h \in Histories}
    ]_vars

C21_Witness ==
  /\ lastOp = "history_ok"
  /\ currentChatId = 2
  /\ nEvents = 3
  /\ Len(messages) = 2
  /\ messages[1] = [content |-> <<TextPart(<<"old">>)>>, isUser |-> TRUE]
  /\ messages[2] = [content |-> <<TextPart(<<"reply">>)>>, isUser |-> FALSE]

\* C22: the step that completes a failed history request (non-success status
\* or network failure) changes neither the Message Store, the current chat
\* (the selected id stays) nor the auth state.
C22_FailedHistoryKeepsDisplay ==
  [][ lastOp' = "history_failed" =>
        /\ UNCHANGED <<messages, currentChatId, user, userId, token, chats>>
        /\ \E r \in inflight : r.kind = "history" /\ inflight' = inflight \ {r}
    ]_vars

C22_Witness ==
  /\ lastOp = "history_failed"
  /\ currentChatId = 2
  /\ Len(messages) >= 1
  /\ token # Null
  /\ inflight = {}

\* C23: an inference request stays outstanding until it resolves, whatever chat
\* is selected or created meanwhile, and the step that resolves it appends one
\* assistant message at the end of what the Message Store holds at that moment.
C23_LateReplyIsAppended ==
  [][ /\ \A r \in Resolved : IsInference(r) =>
           /\ lastOp' \in {"reply_ok", "reply_failed"}
           /\ Len(messages') = Len(messages) + 1
           /\ SubSeq(messages', 1, Len(messages)) = messages
           /\ ~Last(messages').isUser
      /\ lastOp' \in {"select", "create", "create_ok", "create_failed",
                      "history_ok", "history_failed"} =>
           \A r \in inflight : IsInference(r) => r \in inflight'
    ]_vars

C23_Witness ==
  /\ lastOp = "reply_ok"
  /\ currentChatId = 3
  /\ chats = <<Chat(1), Chat(2), Chat(3)>>
  /\ messages = <<BotMessage(<<"ans">>)>>

C25_MessageIdsAreDistinct ==
  /\ Len(ids) = Len(messages)
  /\ \A i, j \in 1..Len(ids) : i # j => ids[i] # ids[j]

-----------------------------------------------------------------------------
(* Vocabulary of the parser properties: the references of a text, read       *)
(* word by word                                                              *)

\* the visible text of a content array, and the URLs of its image_url parts
VisibleText(content) ==
  IF content # <<>> /\ content[1].type = "text" THEN content[1].text ELSE <<>>

RECURSIVE UrlsOf(_)
UrlsOf(content) ==
  IF content = <<>> THEN <<>>
  ELSE (IF Head(content).type = "image_url"
          THEN <<Head(content).image_url.url>> ELSE <<>>) \o UrlsOf(Tail(content))

\* the words of a text: its maximal runs without whitespace, left to right
RECURSIVE Words(_)
Words(s) ==
  IF s = <<>> THEN <<>>
  ELSE IF Head(s) \in Whitespace THEN Words(Tail(s))
  ELSE LET stops == {j \in 1..Len(s) : s[j] \in Whitespace}
           e == IF stops = {} THEN Len(s) ELSE Min(stops) - 1
       IN  <<SubSeq(s, 1, e)>> \o Words(SubSeq(s, e + 1, Len(s)))

Schemes == {"http://", "https://"}
Extensions == {".png", ".jpg", ".jpeg", ".gif", ".bmp", ".webp", ".svg",
               ".PNG", ".JPG", ".JPEG", ".GIF", ".BMP", ".WEBP", ".SVG"}

\* the image URL of a word: from its first scheme to its end, when the word
\* goes on after that scheme and ends in an image extension
WordUrl(w) ==
  LET at == {i \in 1..(Len(w) - 1) : w[i] \in Schemes}
  IN  IF at # {} /\ w[Len(w)] \in Extensions THEN <<SubSeq(w, Min(at), Len(w))>>
      ELSE <<>>

\* the image URLs of the bare-URL form in a text, left to right, repeats included
RECURSIVE WordUrls(_)
WordUrls(ws) == IF ws = <<>> THEN <<>> ELSE WordUrl(Head(ws)) \o WordUrls(Tail(ws))

BareUrls(s) == WordUrls(Words(s))

HasMarker(s) == \E i \in 1..Len(s) : s[i] \in {"[Image Link:", "[image link:"}

\* t is s without its leading and trailing whitespace
IsTrimOf(t, s) ==
  \E i \in 1..(Len(s) + 1), j \in 0..Len(s) :
    /\ t = SubSeq(s, i, j)
    /\ \A k \in 1..(i - 1) : s[k] \in Whitespace
    /\ \A k \in (j + 1)..Len(s) : s[k] \in Whitespace
    /\ t # <<>> => (t[1] \notin Whitespace /\ t[Len(t)] \notin Whitespace)

\* this step handles a click on Send
SendClick == nEvents' # nEvents /\ lastOp' \in SendOps

-----------------------------------------------------------------------------
(* Properties of the parser *)

\* C26 as stated: a text with a bracketed marker is sent without the marker in
\* its visible text; "[Image Link: ftp://x.com/a.jpg] hi" gives the text "hi"
\* and no image, "[Image Link: https://x.com/a.jpg] hi" the text "hi" and that
\* one image URL.
C26_MarkerIsStripped ==
  [][ (SendClick /\ HasMarker(textInput)) =>
        /\ lastOp' = "send"
        /\ ~HasMarker(VisibleText(Last(messages').content))
        /\ textInput = <<"[Image Link:", " ", "ftp://", "x.com/a", ".jpg", "]", " ", "hi">>
             => Last(messages').content = <<TextPart(<<"hi">>)>>
        /\ textInput = <<"[Image Link:", " ", "https://", "x.com/a", ".jpg", "]", " ", "hi">>
             => Last(messages').content =
                  <<TextPart(<<"hi">>), ImageUrlPart(<<"https://", "x.com/a", ".jpg">>)>>
    ]_vars

\* C27 as stated: every http/https URL of the text that ends in an image
\* extension is an image URL part of the message sent and is no longer a URL
\* of its visible text.
C27_BareUrlsAreExtractedAndRemoved ==
  [][ (SendClick /\ lastOp' = "send" /\ ~HasMarker(textInput)) =>
        LET content == Last(messages').content
            urls == BareUrls(textInput)
        IN  \A i \in 1..Len(urls) :
              /\ \E k \in 1..Len(content) : content[k] = ImageUrlPart(urls[i])
              /\ \A w \in 1..Len(BareUrls(VisibleText(content))) :
                   BareUrls(VisibleText(content))[w] # urls[i]
    ]_vars

\* C28 as stated: the image URL parts of the message sent are the image
\* references of the text, one part per reference, repeats included, from left
\* to right, and no reference is left in the visible text.
C28_OnePartPerReferenceInOrder ==
  [][ (SendClick /\ lastOp' = "send" /\ ~HasMarker(textInput)) =>
        LET content == Last(messages').content
        IN  /\ UrlsOf(content) = BareUrls(textInput)
            /\ BareUrls(VisibleText(content)) = <<>>
    ]_vars

\* the image URL parts of the message sent are the references of the text, one
\* part per reference, repeats included, from left to right
PartsMatchReferences ==
  [][ (SendClick /\ lastOp' = "send" /\ ~HasMarker(textInput)) =>
        UrlsOf(Last(messages').content) = BareUrls(textInput)
    ]_vars

\* C29: a text with no marker and no image URL is sent as one text part, the
\* text without its leading and trailing whitespace, and with no image; when
\* nothing but whitespace is left nothing is sent.
C29_PlainTextIsTrimmedOnly ==
  [][ (SendClick /\ ~HasMarker(textInput) /\ BareUrls(textInput) = <<>>
       /\ pendingImage = NoImage) =>
        IF \A i \in 1..Len(textInput) : textInput[i] \in Whitespace
        THEN lastOp' = "send_rejected" /\ messages' = messages
        ELSE /\ lastOp' = "send"
             /\ Len(Last(messages').content) = 1
             /\ Last(messages').content[1].type = "text"
             /\ IsTrimOf(Last(messages').content[1].text, textInput)
    ]_vars

C29_Witness ==
  /\ lastOp = "send"
  /\ Len(messages) = 1
  /\ messages[1].content = <<TextPart(<<"hi", " ", "http://", " ", "hi">>)>>

-----------------------------------------------------------------------------
(* Properties of the upload *)

\* C30: an upload of a file whose media type does not start with "image/"
\* changes neither the pending image, the Message Store, the text input nor the
\* session, and starts no decode; an upload of an image starts one.
C30_NonImageUploadIsRejected ==
  [][ /\ lastOp' = "file_rejected" =>
           /\ UNCHANGED <<pendingImage, messages, textInput, authVars, modalVars>>
           /\ UNCHANGED inflight
      /\ (\E r \in Issued : r.kind = "decode") => lastOp' = "file"
    ]_vars

C30_Witness ==
  /\ lastOp = "file_rejected"
  /\ pendingImage = ToDataURL(<<100, 50>>)
  /\ inflight = {}

-----------------------------------------------------------------------------
(* Properties of the image preprocessor *)

\* C31: the image that becomes pending has the size of the input when width
\* and height are at most 512; otherwise its larger dimension is 512 and the
\* other one is the input's scaled by the same factor, to within one pixel; so
\* neither dimension exceeds 512.
C31_TargetSizeIsBoundedAndProportional ==
  [][ \A r \in Resolved : r.kind = "decode" =>
        LET w == r.width
            h == r.height
        IN  IF w <= 512 /\ h <= 512
            THEN pendingImage' = ToDataURL(<<w, h>>)
            ELSE IF w > h
            THEN \E th \in 0..512 :
                   /\ pendingImage' = ToDataURL(<<512, th>>)
                   /\ th * w <= h * 512 + w - 1
                   /\ th * w >= h * 512 - w + 1
            ELSE \E tw \in 0..512 :
                   /\ pendingImage' = ToDataURL(<<tw, 512>>)
                   /\ tw * h <= w * 512 + h - 1
                   /\ tw * h >= w * 512 - h + 1
    ]_vars

C31_Witness ==
  /\ lastOp = "decoded"
  /\ pendingImage = ToDataURL(<<512, 256>>)
  /\ inflight = {}

\* C39 as stated: the resize of an image of at least 1 x 1 pixels leaves a
\* pending image with a payload, a data URL of an image.
C39_ResizedImageHasPayload ==
  lastOp = "decoded" => StartsWith(pendingImage, "data:image/")

-----------------------------------------------------------------------------
(* Properties of the session guards *)

\* a call of createNewChat or chatSelectOnChange
ChatCall ==
  nEvents' # nEvents /\ lastOp' \in {"create", "create_noop", "select", "select_noop"}

\* C32: a call of createNewChat or chatSelectOnChange made while the token or
\* the user id is none (after logout the token is none) issues no request and
\* leaves the chat registry, currentChatId and the Message Store as they were;
\* so does a selection of the placeholder, whose value is no chat id.
C32_ChatCallsNeedSession ==
  [][ /\ (ChatCall /\ (token = Null \/ userId = NoId)) =>
           /\ Issued = {}
           /\ UNCHANGED <<chats, currentChatId, messages>>
      /\ lastOp' = "select_noop" =>
           /\ Issued = {}
           /\ UNCHANGED <<chats, currentChatId, messages>>
    ]_vars

\* createNewChat was called after a logout and did nothing
C32_Witness ==
  /\ lastOp = "create_noop"
  /\ token = Null /\ userId # NoId
  /\ chats # <<>> /\ currentChatId # NoId
  /\ inflight = {}

\* C33 as stated: a currentChatId that is not none is the id of a chat of the
\* chat registry.
C33_CurrentChatIsInRegistry ==
  currentChatId # NoId => \E i \in 1..Len(chats) : chats[i].id = currentChatId

\* C34 as stated: the request of an Anonymous send carries no message of an
\* authenticated session; in a session that started Authenticated, the first
\* send after the logout carries at most one message, the new one.
C34_AnonymousRequestHasNoSessionMessages ==
  [][ (lastOp = "logout" /\ SendStep) =>
        \A r \in Issued : r.kind = "unauth-inference" =>
          /\ Len(r.body.messages) <= 1
          /\ \A i \in 1..Len(r.body.messages) :
               r.body.messages[i] = [role |-> "user", content |-> r.newMessage.content]
    ]_vars

\* C35 as stated: once the last outstanding history request has resolved with a
\* history, and the current chat is one that a selection made current, the
\* Message Store holds the history of the chat named by currentChatId, that is,
\* the response that filled the store was the one requested for the current chat.
C35_StoreHoldsCurrentChatAfterSelects ==
  [][ (/\ lastOp' = "history_ok"
       /\ currentChatId' \in ChatIds
       /\ \A q \in inflight' : q.kind # "history") =>
        \A r \in Resolved : r.kind = "history" => r.chat_id = currentChatId'
    ]_vars

\* C36 as stated: while the client is Anonymous, the chat registry,
\* currentChatId and the Message Store are changed only by a send and by the
\* replies to sends.
C36_LateResponsesLeaveAnonymousSessionAlone ==
  [][ (token = Null /\ user = Null /\ lastOp' \notin SendOps
         /\ \A r \in Resolved : ~IsInference(r)) =>
        UNCHANGED <<chats, currentChatId, messages>>
    ]_vars

\* C37 as stated: a chat listing that selects the first chat of the list, with
\* no request left in flight, leaves a Message Store without messages of the
\* earlier anonymous conversation: no history was loaded and nothing was sent
\* in the chat or while no chat was current, so the store is empty.
C37_LoginShowsOnlyCurrentChat ==
  [][ (lastOp' = "chats_ok" /\ currentChatId = NoId /\ currentChatId' # NoId
         /\ inflight' = {}
         /\ ~Stored(BotMessage(FailureText(MissingChatMessage)), messages')) =>
        messages' = <<>>
    ]_vars

\* C38 as stated: an accepted send made while an image is pending appends a
\* message whose last part is that image and leaves the pending image and the
\* text input empty.
C38_PendingImageIsAttachedOnce ==
  [][ (SendStep /\ pendingImage # NoImage) =>
        /\ Len(messages') > Len(messages)
        /\ messages'[Len(messages) + 1].content # <<>>
        /\ Last(messages'[Len(messages) + 1].content) = ImageBase64Part(pendingImage)
        /\ pendingImage' = NoImage
        /\ textInput' = <<>>
    ]_vars

====
